---- MODULE Spec2Model ----
(***************************************************************************)
(* Model of src/src/DependencyGraph.js: the dependency graph builder.      *)
(*                                                                         *)
(* The async functions are cut at their await expressions: the code        *)
(* between two awaits runs to completion on the single JavaScript thread,  *)
(* so each action below is one such run of the frame that is on top of a   *)
(* call chain.  The two collaborators (getImports of ./imports and the     *)
(* resolver passed by the caller) are outside this file; their answers are *)
(* fixed the first time they are asked and repeated afterwards.            *)
(***************************************************************************)
EXTENDS Integers, Sequences, FiniteSets, TLC

\* ---------------------------------------------------------------- bounds
NumFiles == 3
MaxImports == 2
MaxEntryPoints == 2
MaxDirectCalls == 2

Files == 1..NumFiles

\* The call chain of createFromMultipleEntryPoints, and the call chains of
\* addDependenciesFrom called directly on a graph.
BuildTask == 0
DirectTasks == 1..MaxDirectCalls
Tasks == {BuildTask} \cup DirectTasks

\* ------------------------------------------------- collaborators' answers
\* importsOf[f]: what getImports(f) does.  The specifiers of a file are
\* named by their position in the list it returns, so the list is <<1..n>>.
NotAsked == -1
ExtractionFails == -2
\* resolved[f][i]: what resolver.resolveImport(f, i) does.
ResolutionFails == -2

VARIABLES
    entryPoints,          \* this.entryPoints
    dependenciesPerFile,  \* this.dependenciesPerFile: the Map, in insertion order
    heap,                 \* the Set objects made by new Set(), by handle
    stack,                \* per task: the frames of its pending async calls
    exc,                  \* per task: the exception travelling up its chain
    result,               \* per task: the state of the promise the caller holds
    importsOf,            \* getImports, as far as it has been asked
    resolved,             \* resolver.resolveImport, as far as it has been asked
    trace,                \* history, per task: what its frames did, in program order
    earlier               \* history: the graphs the caller got from earlier builds

vars == <<entryPoints, dependenciesPerFile, heap, stack, exc, result,
          importsOf, resolved, trace, earlier>>

\* ------------------------------------------------------------ sequences
Range(s) == {s[i] : i \in 1..Len(s)}

SeqsUpTo(S, n) == UNION {[1..k -> S] : k \in 0..n}

\* ------------------------------------------------------------------ Map
\* A JavaScript Map: entries <<key, value>> kept in insertion order.
MapKeys(m) == [i \in 1..Len(m) |-> m[i].key]

MapHas(m, k) == \E i \in 1..Len(m) : m[i].key = k

MapGet(m, k) == m[CHOOSE i \in 1..Len(m) : m[i].key = k].value

\* Map.prototype.set: a new key goes to the end, an existing key keeps its
\* place and gets the new value.
MapSet(m, k, v) ==
    IF MapHas(m, k)
    THEN [i \in 1..Len(m) |-> IF m[i].key = k THEN [key |-> k, value |-> v] ELSE m[i]]
    ELSE Append(m, [key |-> k, value |-> v])

\* --------------------------------------------------------------- errors
NoError == [kind |-> "none", file |-> 0, imp |-> 0]
ExtractionError(f) == [kind |-> "ExtractionError", file |-> f, imp |-> 0]
ResolutionError(f, i) == [kind |-> "ResolutionError", file |-> f, imp |-> i]

\* --------------------------------------------------------------- frames
\* A frame of createFromMultipleEntryPoints: idx is the position of the
\* for-of loop over entryPoints.
BuildFrame(k, pc) ==
    [fn |-> "createFromMultipleEntryPoints", file |-> 0, dependencies |-> 0,
     imports |-> 0, idx |-> k, pc |-> pc]

\* A frame of addDependenciesFrom(resolver, file): dependencies is the handle
\* of its local Set, imports the length of the list getImports returned,
\* idx the position of the for-of loop over imports.
VisitFrame(f, h) ==
    [fn |-> "addDependenciesFrom", file |-> f, dependencies |-> h,
     imports |-> NotAsked, idx |-> 0, pc |-> "getImports"]

Top(t) == stack[t][Len(stack[t])]

Pop(s) == SubSeq(s, 1, Len(s) - 1)

ReplaceTop(s, fr) == [s EXCEPT ![Len(s)] = fr]

Event(op, f, x) == [op |-> op, file |-> f, arg |-> x]

Settled(status, err) == [status |-> status, error |-> err]

\* ------------------------------------------------------------ the graph
\* The keys of the graph and, for a key, the Set the Map holds for it.
Keys == Range(MapKeys(dependenciesPerFile))

DependenciesOf(f) == heap[MapGet(dependenciesPerFile, f)]

\* Mutant: the keys are handed out sorted.
getResolvedFiles_Sorted ==
    SortSeq(MapKeys(dependenciesPerFile), LAMBDA a, b : a < b)

\* getResolvedFiles(): the iterator over the keys of the Map.
getResolvedFiles == MapKeys(dependenciesPerFile)

\* Mutant: every entry point is visited, admitted or not.
EntryNeedsVisit_Always(m, entryPoint) == TRUE

\* Line 21: if (!graph.dependenciesPerFile.has(entryPoint))
EntryNeedsVisit(m, entryPoint) == ~MapHas(m, entryPoint)

\* Mutant: only a dependency on the pending call chain is skipped (a cycle
\* guard instead of a visited set).
DependencyNeedsVisit_CycleGuard(m, dependency) ==
    \A t \in DOMAIN stack : \A i \in 1..Len(stack[t]) : stack[t][i].file # dependency

\* Mutant: the negation of the test is lost.
DependencyNeedsVisit_Inverted(m, dependency) == MapHas(m, dependency)

\* Mutant: the test only keeps a file from visiting itself.
DependencyNeedsVisit_NotSelf(m, dependency) ==
    \A t \in DOMAIN stack : stack[t] = <<>> \/ stack[t][Len(stack[t])].file # dependency

\* Line 43: if (!this.dependenciesPerFile.has(dependency))
DependencyNeedsVisit(m, dependency) == ~MapHas(m, dependency)

\* Mutant: the edge is recorded inside the if, for a new dependency only.
SetAdd_NewOnly(hp, h, dependency) ==
    IF MapHas(dependenciesPerFile, dependency)
    THEN hp
    ELSE [hp EXCEPT ![h] = @ \cup {dependency}]

\* Mutant: the raw specifier (its position) is added, not the resolved file.
SetAdd_Specifier(hp, h, dependency) ==
    LET t == CHOOSE u \in DOMAIN stack : stack[u] # <<>> /\ Top(u).dependencies = h
    IN [hp EXCEPT ![h] = @ \cup {Top(t).idx}]

\* Line 41: dependencies.add(dependency), on the Set with handle h.
SetAdd(hp, h, dependency) == [hp EXCEPT ![h] = @ \cup {dependency}]

\* Lines 34-37: what addDependenciesFrom does before its first await, in
\* program order: a new Set, Map.set(file, it), the call of getImports.
AdmitEvents(f) == <<Event("set", f, 0), Event("getImports", f, 0)>>

\* Mutant: the Map.set of line 35 is not done before getImports is called.
EnterVisit_NoAdmit(t, base, f, hp, tr) ==
    LET h == Len(hp) + 1 IN
    /\ heap' = Append(hp, {})
    /\ dependenciesPerFile' = dependenciesPerFile
    /\ stack' = [stack EXCEPT ![t] = Append(base, VisitFrame(f, h))]
    /\ trace' = [trace EXCEPT ![t] = Append(tr, Event("getImports", f, 0))]
    /\ UNCHANGED <<exc, result>>

\* ------------------------------------------------------ steps of a frame
\* The synchronous start of addDependenciesFrom(resolver, f) called from task
\* t, whose frames below the new one are base (lines 33-37, up to the await).
EnterVisit(t, base, f, hp, tr) ==
    LET h == Len(hp) + 1 IN
    /\ heap' = Append(hp, {})
    /\ dependenciesPerFile' = MapSet(dependenciesPerFile, f, h)
    /\ stack' = [stack EXCEPT ![t] = Append(base, VisitFrame(f, h))]
    /\ trace' = [trace EXCEPT ![t] = tr \o AdmitEvents(f)]
    /\ UNCHANGED <<exc, result>>

\* The for-of loop over imports moves on from position fr.idx (line 39): the
\* next resolveImport is called, or the function returns.
NextImport(t, fr, hp, tr) ==
    /\ heap' = hp
    /\ UNCHANGED <<dependenciesPerFile, exc>>
    /\ IF fr.idx < fr.imports
       THEN /\ stack' = [stack EXCEPT ![t] =
                   ReplaceTop(@, [fr EXCEPT !.idx = @ + 1, !.pc = "resolveImport"])]
            /\ trace' = [trace EXCEPT ![t] =
                   Append(tr, Event("resolveImport", fr.file, fr.idx + 1))]
            /\ UNCHANGED result
       ELSE /\ stack' = [stack EXCEPT ![t] = Pop(@)]
            /\ trace' = [trace EXCEPT ![t] = Append(tr, Event("return", fr.file, 0))]
            /\ result' = IF Len(stack[t]) = 1
                         THEN [result EXCEPT ![t] = Settled("returned", NoError)]
                         ELSE result

\* Mutant: the outermost frame catches the error and returns normally.
Throw_Swallowed(t, err, tr) ==
    /\ stack' = [stack EXCEPT ![t] = Pop(@)]
    /\ exc' = [exc EXCEPT ![t] = err]
    /\ trace' = [trace EXCEPT ![t] = tr]
    /\ result' = IF Len(stack[t]) = 1
                 THEN [result EXCEPT ![t] = Settled("returned", NoError)]
                 ELSE result
    /\ UNCHANGED <<dependenciesPerFile, heap>>

\* Mutant: the throwing frame first removes the failing file from the Map.
Throw_Rollback(t, err, tr) ==
    /\ stack' = [stack EXCEPT ![t] = Pop(@)]
    /\ exc' = [exc EXCEPT ![t] = err]
    /\ trace' = [trace EXCEPT ![t] = tr]
    /\ result' = IF Len(stack[t]) = 1
                 THEN [result EXCEPT ![t] = Settled("rejected", err)]
                 ELSE result
    /\ dependenciesPerFile' = SelectSeq(dependenciesPerFile, LAMBDA e : e.key # err.file)
    /\ UNCHANGED heap

\* The frame on top of t throws err: its promise rejects.
Throw(t, err, tr) ==
    /\ stack' = [stack EXCEPT ![t] = Pop(@)]
    /\ exc' = [exc EXCEPT ![t] = err]
    /\ trace' = [trace EXCEPT ![t] = tr]
    /\ result' = IF Len(stack[t]) = 1
                 THEN [result EXCEPT ![t] = Settled("rejected", err)]
                 ELSE result
    /\ UNCHANGED <<dependenciesPerFile, heap>>

\* Mutant: a continuation runs although the awaited promise rejected.
Running_AfterRejection(t) == stack[t] # <<>>

\* The frame on top of t runs on: none of its awaits has rejected.
Running(t) == stack[t] # <<>> /\ exc[t] = NoError

\* -------------------------------------------------------------- actions
\* createFromMultipleEntryPoints, lines 20-26: the loop over the entry points
\* from its start, or from where the awaited visit left it, up to the next
\* await or the return of the graph.
EntryLoop(t) ==
    /\ Running(t)
    /\ Top(t).fn = "createFromMultipleEntryPoints"
    /\ Top(t).pc \in {"start", "awaitVisit"}
    /\ LET todo == {j \in (Top(t).idx + 1)..Len(entryPoints) :
                       EntryNeedsVisit(dependenciesPerFile, entryPoints[j])}
       IN IF todo = {}
          THEN /\ stack' = [stack EXCEPT ![t] = Pop(@)]
               /\ result' = [result EXCEPT ![t] = Settled("returned", NoError)]
               /\ trace' = [trace EXCEPT ![t] = Append(@, Event("return", 0, 0))]
               /\ UNCHANGED <<dependenciesPerFile, heap, exc>>
          ELSE LET k == CHOOSE j \in todo : \A i \in todo : j <= i
               IN EnterVisit(t, ReplaceTop(stack[t], BuildFrame(k, "awaitVisit")),
                             entryPoints[k], heap, trace[t])
    /\ UNCHANGED <<entryPoints, earlier, importsOf, resolved>>

\* Line 37: getImports(file) resolves with a list of n specifiers.
GetImportsReturns(t) ==
    /\ Running(t)
    /\ Top(t).pc = "getImports"
    /\ \E n \in 0..MaxImports :
          /\ importsOf[Top(t).file] \in {NotAsked, n}
          /\ importsOf' = [importsOf EXCEPT ![Top(t).file] = n]
          /\ NextImport(t, [Top(t) EXCEPT !.imports = n], heap, trace[t])
    /\ UNCHANGED <<entryPoints, earlier, resolved>>

\* Line 37: getImports(file) rejects.
GetImportsThrows(t) ==
    /\ Running(t)
    /\ Top(t).pc = "getImports"
    /\ importsOf[Top(t).file] \in {NotAsked, ExtractionFails}
    /\ importsOf' = [importsOf EXCEPT ![Top(t).file] = ExtractionFails]
    /\ Throw(t, ExtractionError(Top(t).file),
             Append(trace[t], Event("ExtractionError", Top(t).file, 0)))
    /\ UNCHANGED <<entryPoints, earlier, resolved>>

\* Mutant: the edge is recorded in an else branch, so a dependency that is
\* visited is visited before (and without) its edge.
ResolveImportReturns_AddInElse(t) ==
    /\ Running(t)
    /\ Top(t).pc = "resolveImport"
    /\ \E dependency \in Files :
          LET fr == Top(t)
          IN /\ resolved[fr.file][fr.idx] \in {NotAsked, dependency}
             /\ resolved' = [resolved EXCEPT ![fr.file][fr.idx] = dependency]
             /\ IF ~MapHas(dependenciesPerFile, dependency)
                THEN EnterVisit(t, ReplaceTop(stack[t], [fr EXCEPT !.pc = "awaitVisit"]),
                                dependency, heap, trace[t])
                ELSE NextImport(t, fr,
                                [heap EXCEPT ![fr.dependencies] = @ \cup {dependency}],
                                Append(trace[t], Event("add", fr.file, dependency)))
    /\ UNCHANGED <<entryPoints, earlier, importsOf>>

\* Lines 40-45: resolveImport(file, imp) resolves with dependency; it is added
\* to the frame's Set and, when it is no key of the Map, visited.
ResolveImportReturns(t) ==
    /\ Running(t)
    /\ Top(t).pc = "resolveImport"
    /\ \E dependency \in Files :
          LET fr == Top(t)
              hp == SetAdd(heap, fr.dependencies, dependency)
              tr == Append(trace[t], Event("add", fr.file, dependency))
          IN /\ resolved[fr.file][fr.idx] \in {NotAsked, dependency}
             /\ resolved' = [resolved EXCEPT ![fr.file][fr.idx] = dependency]
             /\ IF DependencyNeedsVisit(dependenciesPerFile, dependency)
                THEN EnterVisit(t, ReplaceTop(stack[t], [fr EXCEPT !.pc = "awaitVisit"]),
                                dependency, hp, tr)
                ELSE NextImport(t, fr, hp, tr)
    /\ UNCHANGED <<entryPoints, earlier, importsOf>>

\* Line 40: resolveImport(file, imp) rejects.
ResolveImportThrows(t) ==
    /\ Running(t)
    /\ Top(t).pc = "resolveImport"
    /\ resolved[Top(t).file][Top(t).idx] \in {NotAsked, ResolutionFails}
    /\ resolved' = [resolved EXCEPT ![Top(t).file][Top(t).idx] = ResolutionFails]
    /\ Throw(t, ResolutionError(Top(t).file, Top(t).idx),
             Append(trace[t], Event("ResolutionError", Top(t).file, Top(t).idx)))
    /\ UNCHANGED <<entryPoints, earlier, importsOf>>

\* Line 44: the awaited addDependenciesFrom(resolver, dependency) has
\* returned; the loop over imports goes on.
VisitReturns(t) ==
    /\ Running(t)
    /\ Top(t).fn = "addDependenciesFrom"
    /\ Top(t).pc = "awaitVisit"
    /\ NextImport(t, Top(t), heap, trace[t])
    /\ UNCHANGED <<entryPoints, earlier, importsOf, resolved>>

\* An await whose promise rejected: no frame has a try/catch, so the frame on
\* top rejects in turn (lines 22, 44).
Rethrow(t) ==
    /\ stack[t] # <<>>
    /\ exc[t] # NoError
    /\ Throw(t, exc[t], trace[t])
    /\ UNCHANGED <<entryPoints, earlier, importsOf, resolved>>

\* ------------------------------------------------- the sequential build
\* createFromMultipleEntryPoints(resolver, entryPoints) has been called and
\* has run new DependencyGraph(entryPoints) (lines 6-9, 18).
Init ==
    /\ entryPoints \in SeqsUpTo(Files, MaxEntryPoints)
    /\ dependenciesPerFile = <<>>
    /\ heap = <<>>
    /\ stack = [t \in Tasks |-> IF t = BuildTask THEN <<BuildFrame(0, "start")>> ELSE <<>>]
    /\ exc = [t \in Tasks |-> NoError]
    /\ result = [t \in Tasks |-> Settled(IF t = BuildTask THEN "pending" ELSE "idle", NoError)]
    /\ importsOf = [f \in Files |-> NotAsked]
    /\ resolved = [f \in Files |-> [i \in 1..MaxImports |-> NotAsked]]
    /\ trace = [t \in Tasks |-> <<>>]
    /\ earlier = <<>>

Next ==
    \/ EntryLoop(BuildTask)
    \/ GetImportsReturns(BuildTask)
    \/ GetImportsThrows(BuildTask)
    \/ ResolveImportReturns(BuildTask)
    \/ ResolveImportThrows(BuildTask)
    \/ VisitReturns(BuildTask)
    \/ Rethrow(BuildTask)

Spec == Init /\ [][Next]_vars

Returned(t) == result[t].status = "returned"

Rejected(t) == result[t].status = "rejected"

\* ------------------------------------------------------- a second build
\* What the caller can read from a graph: the keys in order and their sets.
Snapshot ==
    [entryPoints |-> entryPoints,
     files |-> getResolvedFiles,
     dependencies |-> [f \in Keys |-> DependenciesOf(f)]]

\* The caller, holding the graph of a build, calls
\* createFromMultipleEntryPoints again with the same resolver and the same
\* entry points in any order: a new graph (line 18) and a new call chain.
BuildAgain ==
    /\ Returned(BuildTask)
    /\ earlier = <<>>
    /\ earlier' = <<Snapshot>>
    /\ entryPoints' \in {s \in SeqsUpTo(Files, MaxEntryPoints) :
                            Range(s) = Range(entryPoints)}
    /\ dependenciesPerFile' = <<>>
    /\ heap' = <<>>
    /\ stack' = [stack EXCEPT ![BuildTask] = <<BuildFrame(0, "start")>>]
    /\ result' = [result EXCEPT ![BuildTask] = Settled("pending", NoError)]
    /\ trace' = [trace EXCEPT ![BuildTask] = <<>>]
    /\ UNCHANGED <<exc, importsOf, resolved>>

NextTwoRuns ==
    \/ Next
    \/ BuildAgain

SpecTwoRuns == Init /\ [][NextTwoRuns]_vars

\* ------------------------------------- addDependenciesFrom called directly
\* The caller has made a graph with new DependencyGraph([]) (lines 6-9) and
\* calls its method addDependenciesFrom itself, at any time and without
\* waiting for the calls made before.
InitDirect ==
    /\ entryPoints = <<>>
    /\ dependenciesPerFile = <<>>
    /\ heap = <<>>
    /\ stack = [t \in Tasks |-> <<>>]
    /\ exc = [t \in Tasks |-> NoError]
    /\ result = [t \in Tasks |-> Settled("idle", NoError)]
    /\ importsOf = [f \in Files |-> NotAsked]
    /\ resolved = [f \in Files |-> [i \in 1..MaxImports |-> NotAsked]]
    /\ trace = [t \in Tasks |-> <<>>]
    /\ earlier = <<>>

Called(t) == stack[t] # <<>> \/ result[t].status # "idle"

\* graph.addDependenciesFrom(resolver, f): lines 33-37 up to the await.
DirectCall(t, f) ==
    /\ ~Called(t)
    /\ \A u \in DirectTasks : u < t => Called(u)
    /\ EnterVisit(t, <<>>, f, heap, trace[t])
    /\ UNCHANGED <<entryPoints, earlier, importsOf, resolved>>

NextDirect ==
    \E t \in DirectTasks :
        \/ \E f \in Files : DirectCall(t, f)
        \/ GetImportsReturns(t)
        \/ GetImportsThrows(t)
        \/ ResolveImportReturns(t)
        \/ ResolveImportThrows(t)
        \/ VisitReturns(t)
        \/ Rethrow(t)

SpecDirect == InitDirect /\ [][NextDirect]_vars

\* ------------------------------------------ concurrent visits of new files
\* The caller starts visits as the code's own call sites do (lines 21-22,
\* 43-44): has(f) is tested and addDependenciesFrom called in one run.
CheckedCall(t, f) ==
    /\ ~MapHas(dependenciesPerFile, f)
    /\ DirectCall(t, f)

NextConcurrent ==
    \E t \in DirectTasks :
        \/ \E f \in Files : CheckedCall(t, f)
        \/ GetImportsReturns(t)
        \/ GetImportsThrows(t)
        \/ ResolveImportReturns(t)
        \/ ResolveImportThrows(t)
        \/ VisitReturns(t)
        \/ Rethrow(t)

SpecConcurrent == InitDirect /\ [][NextConcurrent]_vars

\* The scheduler runs a continuation whose promise has settled: a build
\* that can take a step eventually takes one.
FairSpec == Spec /\ WF_vars(Next)

\* ------------------------------------------- the collaborators, as asked
Asked(f) == importsOf[f] >= 0

\* The files the specifiers of f resolve to, as far as the resolver was asked.
Targets(f) ==
    IF Asked(f) THEN {resolved[f][i] : i \in 1..importsOf[f]} \cap Files ELSE {}

RECURSIVE Reach(_)
Reach(S) ==
    LET T == S \cup UNION {Targets(f) : f \in S}
    IN IF T = S THEN S ELSE Reach(T)

OnCycle(f) == f \in Reach(Targets(f))

Failures ==
    {ExtractionError(f) : f \in {g \in Files : importsOf[g] = ExtractionFails}}
    \cup {ResolutionError(e[1], e[2]) :
             e \in {x \in Files \X (1..MaxImports) : resolved[x[1]][x[2]] = ResolutionFails}}

\* ------------------------------------------------------------ the trace
\* The operations of the build, in the order in which it made them.
BuildTrace == trace[BuildTask]

Positions(op, f) ==
    {p \in 1..Len(BuildTrace) : BuildTrace[p].op = op /\ BuildTrace[p].file = f}

Times(op, f) == Cardinality(Positions(op, f))

IsFailure(e) == e.op \in {"ExtractionError", "ResolutionError"}

\* ------------------------------------- the traversal order, as a function
\* The depth-first traversal the claims speak of, computed directly from the
\* entry points and the collaborators' answers: entry points in the given
\* order, specifiers in declared order, a dependency visited as soon as it
\* is met for the first time, everything stopping at the first failure.
\* st.keys are the files admitted so far, st.tr the operations so far.
RefStart == [keys |-> <<>>, tr |-> <<>>, stopped |-> FALSE]

RefDid(st, e) == [st EXCEPT !.tr = Append(@, e)]

RefStop(st) == [st EXCEPT !.stopped = TRUE]

RECURSIVE RefVisit(_, _), RefImports(_, _, _)
RefVisit(f, st) ==
    LET st1 == [st EXCEPT !.keys = Append(@, f),
                          !.tr = @ \o <<Event("set", f, 0), Event("getImports", f, 0)>>]
    IN IF importsOf[f] = ExtractionFails
       THEN RefStop(RefDid(st1, Event("ExtractionError", f, 0)))
       ELSE IF importsOf[f] = NotAsked
       THEN RefStop(st1)
       ELSE RefImports(f, 1, st1)

RefImports(f, i, st) ==
    IF st.stopped THEN st
    ELSE IF i > importsOf[f] THEN RefDid(st, Event("return", f, 0))
    ELSE LET st1 == RefDid(st, Event("resolveImport", f, i))
             d == resolved[f][i]
         IN IF d = ResolutionFails
            THEN RefStop(RefDid(st1, Event("ResolutionError", f, i)))
            ELSE IF d = NotAsked
            THEN RefStop(st1)
            ELSE LET st2 == RefDid(st1, Event("add", f, d))
                 IN RefImports(f, i + 1,
                               IF d \in Range(st2.keys) THEN st2 ELSE RefVisit(d, st2))

RECURSIVE RefEntries(_, _)
RefEntries(j, st) ==
    IF st.stopped THEN st
    ELSE IF j > Len(entryPoints) THEN RefDid(st, Event("return", 0, 0))
    ELSE RefEntries(j + 1, IF entryPoints[j] \in Range(st.keys)
                           THEN st
                           ELSE RefVisit(entryPoints[j], st))

RefBuild == RefEntries(1, RefStart)

\* ---------------------------------------------------------------- claims
Importers(f) == {g \in Files : f \in Targets(g)}

EntryPositions(f) == {j \in 1..Len(entryPoints) : entryPoints[j] = f}

InEdges(f) == {e \in Files \X (1..MaxImports) :
                  Asked(e[1]) /\ e[2] <= importsOf[e[1]] /\ resolved[e[1]][e[2]] = f}

\* A file reached by two or more paths: import statements and entry points.
ReachedTwice(f) == Cardinality(InEdges(f)) + Cardinality(EntryPositions(f)) >= 2

\* C1: during a build every file is admitted at most once and the extractor
\* is called on it at most once, a key has had exactly one extractor call,
\* and in the returned graph a file reached by two or more paths is one key
\* with one extractor call.
C1_AdmittedOnce ==
    \A f \in Files :
        /\ Cardinality({i \in 1..Len(dependenciesPerFile) :
                           dependenciesPerFile[i].key = f}) <= 1
        /\ Times("set", f) <= 1
        /\ Times("getImports", f) <= 1
        /\ f \in Keys => Times("getImports", f) = 1
        /\ Returned(BuildTask) /\ ReachedTwice(f) =>
               /\ Cardinality({i \in 1..Len(dependenciesPerFile) :
                                  dependenciesPerFile[i].key = f}) = 1
               /\ Times("getImports", f) = 1

\* A returned graph in which one file has two different importers, is
\* imported twice by one of them, and is an entry point after its importer.
C1_Witness ==
    /\ Returned(BuildTask)
    /\ \E f \in Keys :
          /\ Cardinality(Importers(f)) >= 2
          /\ Cardinality(InEdges(f)) >= 3
          /\ EntryPositions(f) = {2}
          /\ entryPoints[1] \in Importers(f) \ {f}

\* C2: a build eventually settles; when no collaborator call failed it has
\* returned, and every file on an import cycle then has exactly the files its
\* specifiers resolve to as its dependency set.
C2_CycleTerminates ==
    <>[](/\ result[BuildTask].status # "pending"
         /\ Failures = {} =>
               /\ Returned(BuildTask)
               /\ \A f \in Keys : OnCycle(f) => DependenciesOf(f) = Targets(f))

\* A returned graph with a file importing itself and two files importing
\* each other.
C2_Witness ==
    /\ Returned(BuildTask)
    /\ \E f \in Keys : f \in Targets(f) /\ f \in DependenciesOf(f)
    /\ \E f, g \in Keys : /\ f # g
                          /\ g \in Targets(f) /\ f \in Targets(g)
                          /\ g \in DependenciesOf(f) /\ f \in DependenciesOf(g)

\* C3: in a returned graph every entry point and every file reachable from
\* an entry point is a key, every specifier of a key resolves to a member of
\* the key's dependency set, and a key without imports has the empty set.
C3_Completeness ==
    Returned(BuildTask) =>
        /\ Range(entryPoints) \subseteq Keys
        /\ Reach(Range(entryPoints)) \subseteq Keys
        /\ \A F \in Keys :
              /\ Asked(F)
              /\ \A i \in 1..importsOf[F] : resolved[F][i] \in DependenciesOf(F)
              /\ importsOf[F] = 0 => DependenciesOf(F) = {}

\* A returned graph of three files, one entry point, one file reached only
\* through another file, and a leaf.
C3_Witness ==
    /\ Returned(BuildTask)
    /\ Len(entryPoints) = 1
    /\ Cardinality(Keys) = 3
    /\ \E f \in Keys : f \notin Targets(entryPoints[1]) \cup {entryPoints[1]}
    /\ \E f \in Keys : importsOf[f] = 0

\* C4: the build returns a graph exactly when it has ended and no collaborator
\* call failed; when one failed the error travels up the call chain and the
\* build ends rejected with it.
C4_AllOrNothing ==
    /\ Returned(BuildTask) <=> (stack[BuildTask] = <<>> /\ Failures = {})
    /\ Rejected(BuildTask) <=> (stack[BuildTask] = <<>> /\ Failures # {})
    /\ Failures # {} => Failures = {exc[BuildTask]}
    /\ Rejected(BuildTask) => result[BuildTask].error = exc[BuildTask]

\* A rejected build whose failing file had already got an edge from an
\* earlier specifier.
C4_Witness ==
    /\ Rejected(BuildTask)
    /\ result[BuildTask].error.kind = "ResolutionError"
    /\ result[BuildTask].error.imp = 2
    /\ DependenciesOf(result[BuildTask].error.file) # {}

ErrorOf(e) == [kind |-> e.op, file |-> e.file, imp |-> e.arg]

\* C5: after a collaborator call has failed no further operation is made, the
\* error of the build is that failure, and the operations made up to it are
\* those of the depth-first traversal in the given order.
C5_FailFast ==
    /\ \A p \in 1..Len(BuildTrace) :
          IsFailure(BuildTrace[p]) =>
              /\ p = Len(BuildTrace)
              /\ exc[BuildTask] = ErrorOf(BuildTrace[p])
              /\ stack[BuildTask] = <<>> =>
                     result[BuildTask] = Settled("rejected", ErrorOf(BuildTrace[p]))
    /\ Rejected(BuildTask) => /\ IsFailure(BuildTrace[Len(BuildTrace)])
                              /\ BuildTrace = RefBuild.tr

\* A build rejected by a failure two calls deep, with a specifier of the entry
\* point and a second entry point left unprocessed.
C5_Witness ==
    /\ Rejected(BuildTask)
    /\ Len(entryPoints) = 2
    /\ entryPoints[2] \notin Keys
    /\ importsOf[entryPoints[1]] = 2
    /\ resolved[entryPoints[1]][2] = NotAsked
    /\ result[BuildTask].error.file \notin Range(entryPoints)
    /\ result[BuildTask].error.kind = "ResolutionError"

\* The files that have a frame of addDependenciesFrom on a call chain.
Visiting ==
    UNION {{stack[t][i].file : i \in 1..Len(stack[t])} : t \in Tasks} \cap Files

\* Where a file is in its life: 0 unadmitted, 1 admitted and being visited,
\* 2 admitted and its visit returned, 3 admitted and its visit failed.
Phase(f) ==
    IF f \notin Keys THEN 0
    ELSE IF f \in Visiting THEN 1
    ELSE IF Positions("return", f) # {} THEN 2
    ELSE 3

IsPrefix(a, b) == Len(a) <= Len(b) /\ SubSeq(b, 1, Len(a)) = a

\* C8: in every step of a build the keys keep their order and only get new
\* ones at the end, no key gets another Set, every dependency set only grows,
\* the set of a file whose visit has ended stays as it is, and a file only
\* moves unadmitted -> being visited -> returned or failed.
C8_Monotonic ==
    [][/\ IsPrefix(MapKeys(dependenciesPerFile), MapKeys(dependenciesPerFile'))
       /\ \A f \in Keys :
             /\ MapGet(dependenciesPerFile', f) = MapGet(dependenciesPerFile, f)
             /\ DependenciesOf(f) \subseteq DependenciesOf(f)'
             /\ f \notin Visiting => DependenciesOf(f)' = DependenciesOf(f)
       /\ \A f \in Files :
             <<Phase(f), Phase(f)'>> \in
                 {<<0, 0>>, <<0, 1>>, <<1, 1>>, <<1, 2>>, <<1, 3>>, <<2, 2>>, <<3, 3>>}
      ]_vars

\* A build in which one file's visit has returned with an edge, another's
\* has failed and a third is still being visited.
C8_Witness ==
    \E f, g, h \in Keys :
        /\ Phase(f) = 2 /\ DependenciesOf(f) # {}
        /\ Phase(g) = 3
        /\ Phase(h) = 1

\* The files in the order of their Map.set operations.
AdmissionOrder ==
    LET sets == SelectSeq(BuildTrace, LAMBDA e : e.op = "set")
    IN [i \in 1..Len(sets) |-> sets[i].file]

\* C9: getResolvedFiles yields the admitted files, each once, in the order
\* in which they were admitted, which in a returned graph is the depth-first
\* pre-order over the entry points and the specifiers.
C9_AdmissionOrder ==
    /\ getResolvedFiles = AdmissionOrder
    /\ \A i, j \in 1..Len(getResolvedFiles) :
           getResolvedFiles[i] = getResolvedFiles[j] => i = j
    /\ Returned(BuildTask) => getResolvedFiles = RefBuild.keys

\* A returned graph whose second entry point was admitted last, after a
\* file found under the first entry point, the order not being the sorted one.
C9_Witness ==
    /\ Returned(BuildTask)
    /\ Len(entryPoints) = 2
    /\ Len(getResolvedFiles) = 3
    /\ getResolvedFiles[3] = entryPoints[2]
    /\ getResolvedFiles[1] > getResolvedFiles[2]

Frames == {<<t, i>> \in Tasks \X (1..(NumFiles + 1)) : i <= Len(stack[t])}

\* C10: a getImports call on a file comes after the Map.set of that file, a
\* resolveImport call or an added edge of a file after its getImports call;
\* every file being visited is a key, and while getImports is awaited its
\* Set is the one in the Map and is empty.
C10_AdmitBeforeExtract ==
    /\ \A p \in 1..Len(BuildTrace) :
          /\ BuildTrace[p].op = "getImports" =>
                 \E q \in 1..(p - 1) : BuildTrace[q] = Event("set", BuildTrace[p].file, 0)
          /\ BuildTrace[p].op \in {"resolveImport", "add"} =>
                 \E q \in 1..(p - 1) : BuildTrace[q] = Event("getImports", BuildTrace[p].file, 0)
    /\ \A x \in Frames :
          LET fr == stack[x[1]][x[2]]
          IN fr.fn = "addDependenciesFrom" =>
                 /\ fr.file \in Keys
                 /\ fr.pc = "getImports" =>
                        /\ MapGet(dependenciesPerFile, fr.file) = fr.dependencies
                        /\ DependenciesOf(fr.file) = {}

\* A dependency just admitted two calls deep: a key with an empty set whose
\* getImports has not answered yet.
C10_Witness ==
    /\ Len(stack[BuildTask]) = 3
    /\ Top(BuildTask).pc = "getImports"
    /\ importsOf[Top(BuildTask).file] = NotAsked
    /\ Top(BuildTask).file \in Keys
    /\ DependenciesOf(Top(BuildTask).file) = {}

\* C6: two returned builds over the same entry points, taken in any order,
\* and the same collaborators give graphs with the same keys and the same
\* dependency set for every key.
C6_OrderIndependent ==
    earlier # <<>> /\ Returned(BuildTask) =>
        /\ Range(Snapshot.files) = Range(earlier[1].files)
        /\ Snapshot.dependencies = earlier[1].dependencies

\* Two returned builds whose entry points were given in different orders
\* and which admitted their three files in different orders.
C6_Witness ==
    /\ earlier # <<>>
    /\ Returned(BuildTask)
    /\ entryPoints # earlier[1].entryPoints
    /\ Len(getResolvedFiles) = 3
    /\ getResolvedFiles # earlier[1].files
    /\ \E f \in Keys : Cardinality(DependenciesOf(f)) = 2

\* The operations task t makes in the step.
NewEvents(t) == {trace'[t][p] : p \in (Len(trace[t]) + 1)..Len(trace'[t])}

\* C7: a step that starts addDependenciesFrom on a file that is a key leaves
\* the keys and the dependency set of that file as they were.
C7_AdmissionIdempotent ==
    [][\A t \in Tasks : \A f \in Keys :
           Event("set", f, 0) \in NewEvents(t) =>
               /\ getResolvedFiles' = getResolvedFiles
               /\ DependenciesOf(f)' = DependenciesOf(f)
      ]_vars

\* Every visit started at a position of the build's trace within lo..hi has
\* returned at a later position within lo..hi.
VisitsEnded(lo, hi) ==
    \A r \in lo..hi :
        BuildTrace[r].op = "set" =>
            \E e \in (r + 1)..hi : BuildTrace[e] = Event("return", BuildTrace[r].file, 0)

\* C11: in a build a dependency is admitted right after its edge has been
\* recorded, an entry point only when every visit started before it has
\* returned; between two resolveImport calls of one file every visit started
\* has returned; and the operations of a returned build are, in order, those
\* of the depth-first traversal.
C11_DepthFirst ==
    /\ \A p \in 1..Len(BuildTrace) :
          BuildTrace[p].op = "set" =>
              \/ p = 1
              \/ /\ BuildTrace[p - 1].op = "add"
                 /\ BuildTrace[p - 1].arg = BuildTrace[p].file
              \/ /\ BuildTrace[p - 1].op = "return"
                 /\ BuildTrace[p].file \in Range(entryPoints)
                 /\ VisitsEnded(1, p - 1)
    /\ \A p \in 1..Len(BuildTrace) : \A q \in 1..(p - 1) :
          /\ BuildTrace[p].op = "resolveImport"
          /\ BuildTrace[q].op = "resolveImport"
          /\ BuildTrace[q].file = BuildTrace[p].file
          => /\ BuildTrace[q].arg < BuildTrace[p].arg
             /\ VisitsEnded(q, p - 1)
    /\ Returned(BuildTask) => BuildTrace = RefBuild.tr

\* A returned build of two entry points in which the first specifier of the
\* first entry point led to a visit that visited a third file in turn, before
\* the second specifier was resolved.
C11_Witness ==
    /\ Returned(BuildTask)
    /\ Len(entryPoints) = 2
    /\ \E a, b, c \in Keys :
          /\ a # b /\ b # c /\ a # c
          /\ entryPoints = <<a, c>>
          /\ importsOf[a] = 2
          /\ resolved[a][1] = b
          /\ resolved[b][1] = c
          /\ \E p, q \in 1..Len(BuildTrace) :
                /\ p < q
                /\ BuildTrace[p] = Event("return", b, 0)
                /\ BuildTrace[q] = Event("resolveImport", a, 2)
                /\ \E r \in 1..(p - 1) : BuildTrace[r] = Event("return", c, 0)

\* The edges a failing visit has recorded when it fails with err: those of the
\* specifiers before the failing one, none when getImports failed.
EdgesBefore(err) == {resolved[err.file][i] : i \in 1..(err.imp - 1)}

\* C12: the step in which a collaborator call of a build fails, and every
\* step after it, leaves the Map and every Set as they were; the failing
\* file is a key and keeps exactly the edges of its earlier specifiers.
C12_FailureKeepsStore ==
    [][Failures' # {} =>
           /\ dependenciesPerFile' = dependenciesPerFile
           /\ heap' = heap
           /\ exc'[BuildTask].file \in Keys'
           /\ DependenciesOf(exc[BuildTask].file)' = EdgesBefore(exc[BuildTask])'
      ]_vars

\* A rejected build: the resolver failed on the second specifier of a file
\* that keeps the edge of its first, beside a file whose visit had returned
\* with an edge of its own.
C12_Witness ==
    /\ Rejected(BuildTask)
    /\ exc[BuildTask].kind = "ResolutionError"
    /\ exc[BuildTask].imp = 2
    /\ DependenciesOf(exc[BuildTask].file) = {resolved[exc[BuildTask].file][1]}
    /\ \E g \in Keys : /\ g # exc[BuildTask].file
                       /\ g \notin Visiting
                       /\ Positions("return", g) # {}
                       /\ DependenciesOf(g) # {}

\* How often any call chain has made operation op on file f.
TimesAll(op, f) ==
    Cardinality(UNION {{<<t, p>> : p \in {q \in DOMAIN trace[t] :
                                             /\ trace[t][q].op = op
                                             /\ trace[t][q].file = f}} : t \in Tasks})

\* C13: however visits started on files that were no keys interleave, a file
\* is admitted by at most one of them and getImports is called on it at most
\* once; a frame that awaits getImports holds the Set the Map has for its file.
C13_AdmitOnceConcurrently ==
    /\ \A f \in Files :
          /\ TimesAll("set", f) <= 1
          /\ TimesAll("getImports", f) <= 1
          /\ f \in Keys <=> TimesAll("set", f) = 1
    /\ \A x \in Frames :
          stack[x[1]][x[2]].fn = "addDependenciesFrom" =>
              /\ MapHas(dependenciesPerFile, stack[x[1]][x[2]].file)
              /\ MapGet(dependenciesPerFile, stack[x[1]][x[2]].file)
                     = stack[x[1]][x[2]].dependencies

\* Two visits under way at once: the first has found a dependency and is
\* visiting it, the second has resolved a specifier to the same file, has
\* recorded the edge and has not visited it.
C13_Witness ==
    \E d \in Files :
        /\ Len(stack[1]) = 2
        /\ stack[1][2].file = d
        /\ stack[1][2].pc = "getImports"
        /\ stack[2] # <<>>
        /\ stack[2][1].file # stack[1][1].file
        /\ \E p \in 1..Len(trace[2]) :
              /\ trace[2][p].op = "add"
              /\ trace[2][p].arg = d
              /\ trace[2][p].file # d
        /\ \A p \in 1..Len(trace[2]) : trace[2][p] # Event("set", d, 0)

\* C14: in every state of a build a key is an entry point or what a specifier
\* of another key resolved to, and every member of a key's dependency set is
\* what one of the key's specifiers resolved to; in a returned graph every
\* member of every dependency set is a key.
C14_SoundAndClosed ==
    /\ \A f \in Keys :
          \/ f \in Range(entryPoints)
          \/ \E g \in Keys \ {f} : f \in Targets(g)
    /\ \A F \in Keys : DependenciesOf(F) \subseteq Targets(F)
    /\ Returned(BuildTask) => \A F \in Keys : DependenciesOf(F) \subseteq Keys

\* A returned graph of three keys from one entry point, every key with an
\* edge, one of them to a file that is not the entry point's own dependency.
C14_Witness ==
    /\ Returned(BuildTask)
    /\ Len(entryPoints) = 1
    /\ Cardinality(Keys) = 3
    /\ \A F \in Keys : DependenciesOf(F) # {}
    /\ \E F \in Keys : DependenciesOf(F) \ DependenciesOf(entryPoints[1]) # {}

\* The frames of addDependenciesFrom pending in the build, outermost first.
Chain == SubSeq(stack[BuildTask], 2, Len(stack[BuildTask]))

\* C15: in every state of a build the pending visits are of pairwise
\* different files, the outermost of the entry point the loop is at, each
\* inner one of a member of the dependency set of the one around it; before
\* any failure the keys whose visit has not returned are exactly the files
\* of the pending visits; and there are no more pending visits than keys,
\* nor more keys than files reachable from the entry points.
C15_PendingChain ==
    /\ \A i \in 1..Len(stack[BuildTask]) :
          (stack[BuildTask][i].fn = "addDependenciesFrom") <=> (i >= 2)
    /\ \A i, j \in 1..Len(Chain) : Chain[i].file = Chain[j].file => i = j
    /\ Chain # <<>> =>
          /\ stack[BuildTask][1].idx \in 1..Len(entryPoints)
          /\ Chain[1].file = entryPoints[stack[BuildTask][1].idx]
    /\ \A i \in 1..(Len(Chain) - 1) :
          /\ Chain[i].pc = "awaitVisit"
          /\ Chain[i + 1].file \in heap[Chain[i].dependencies]
          /\ Chain[i + 1].file \in DependenciesOf(Chain[i].file)
    /\ exc[BuildTask] = NoError =>
          {f \in Keys : Positions("return", f) = {}} = {Chain[i].file : i \in 1..Len(Chain)}
    /\ Len(Chain) <= Cardinality(Keys)
    /\ Cardinality(Keys) <= Cardinality(Reach(Range(entryPoints)))

\* A build three visits deep, as deep as there are files, beside no other key.
C15_Witness ==
    /\ Len(Chain) = NumFiles
    /\ Chain[Len(Chain)].pc = "resolveImport"
    /\ exc[BuildTask] = NoError

====
